---- MODULE Spec2Model ----
(***************************************************************************)
(* The event-stream broker of stoqserver/lib/eventstream.py.               *)
(*                                                                         *)
(* EventStream keeps three class-level dictionaries keyed by station id:   *)
(* _streams (the current outbound gevent Queue), _replies (a Queue with    *)
(* maxsize 1) and _waiting_reply (a gevent Event used as a flag).          *)
(* Greenlets are scheduled cooperatively, so every action below runs from  *)
(* one suspension point of the code to the next: Queue.get() on an empty   *)
(* queue and Queue.put() on a full bounded queue are the only places where *)
(* a handler can be suspended.                                             *)
(*                                                                         *)
(* gevent's Queue.put() stores the item and only schedules the wake-up of  *)
(* a suspended getter, and Queue.get() on a non-empty queue returns at     *)
(* once whoever else is waiting: between a put and the resumption of the   *)
(* greenlet suspended in get() (ask_wake below) any other greenlet that is *)
(* ready may run.  Which of several suspended greenlets is resumed first   *)
(* is left open.                                                           *)
(***************************************************************************)
EXTENDS Integers, Sequences, FiniteSets, TLC

\* ------------------------------------------------------------------ bounds
\* stations, concurrent callers of ask_question, distinct replies
NStations == 2
NAskers == 2
NAnswers == 2
\* stream connections (calls of get) and ask_question calls in SpecQA
MaxSessions == 3
MaxAsks == 3
\* the same for Spec, which also runs the streams
StreamSessions == 2
StreamAsks == 1
\* ask_question calls in SpecLife
LifeAsks == 2
\* put/put_all calls, frames yielded by all sessions together
MaxEvents == 1
MaxFrames == 2
\* subscribers answering TefCheckPendingEvent
MaxSubscribers == 2

Stations == 1..NStations
Askers == 1..NAskers
Answers == 1..NAnswers
Sessions == 1..MaxSessions

\* ------------------------------------------------------- program constants
\* Queue(maxsize=1): the capacity of a station's reply queue
ReplyMaxsize == 1

\* the class object that is put as the invalid reply
EventStreamBrokenException == 0

\* "no value": an ask that has not returned, a station without a stream
None == -1

\* Values travelling down a stream are <<depth, type, n>>: depth counts how many
\* times the value has been JSON-encoded into a string (0: still a dict).
Dict(type, n) == <<0, type, n>>

json_dumps(v) == <<v[1] + 1, v[2], v[3]>>

\* json.dumps({}) of line 132: the queue holds a str, not a dict
KeepAlive == json_dumps(Dict("{}", 0))

TefAskQuestion(question) == Dict("TEF_ASK_QUESTION", question)

TefWarningMessage == Dict("TEF_WARNING_MESSAGE", 0)

ClearSale == Dict("CLEAR_SALE", 0)

AppEvent(n) == Dict("EVENT", n)

\* the item is the event of a question
IsQuestion(v) == v[2] = "TEF_ASK_QUESTION"

\* the frame _loop yields for one item of the queue
Frame(data) == <<"data: ", json_dumps(data), "\n\n">>

\* the results TefCheckPendingEvent.send() can return: a list of
\* (subscriber, result) pairs, modelled by the list of the results
HookResults == UNION {[1..n -> BOOLEAN] : n \in 0..MaxSubscribers}

VARIABLES
    streams,        \* _streams: station -> session owning the current Queue, None if absent
    replies,        \* _replies: station -> contents of the maxsize-1 Queue
    waiting_reply,  \* _waiting_reply: station -> is the Event set
    queue,          \* session -> contents of the Queue() made at line 115
    spc,            \* session -> "new" | "put" (suspended at line 128) | "loop" | "closed"
    sstation,       \* session -> station of the request
    produced,       \* session -> frames yielded by _loop so far
    putlog,         \* session -> every item ever put into the session's Queue (history)
    ask,            \* asker -> state of its ask_question call
    nAsk,           \* number of ask_question calls started
    seen,           \* history, per station, since the latest get() or put_reply for it:
                    \*   asked  the questions asked
                    \*   frame  its current session has produced the frame of a question
                    \*   clean  ... of a question that is in asked
    events,         \* history: for the n-th put/put_all call, the entry point, _streams,
                    \* the number of sessions and the sessions being served at the
                    \* time of the call
    err             \* <<entry point, station>> of the call that raised (AssertionError,
                    \* KeyError) in the latest step, NoError if that step raised nothing

vars == <<streams, replies, waiting_reply, queue, spc, sstation, produced, putlog,
          ask, nAsk, seen, events, err>>

\* ---------------------------------------------------------------- helpers
NoError == <<"", None>>

Registered(s) == streams[s] # None

nSess == Cardinality({x \in Sessions : spc[x] # "new"})

\* the sessions whose response is being served by _loop
Serving == {x \in Sessions : spc[x] = "loop"}

\* defective variant: the items go into every queue, whatever the station
Enq_all(f, sid, items) == [x \in DOMAIN f |-> f[x] \o items]

Enq(f, sid, items) == [f EXCEPT ![sid] = @ \o items]

\* defective variant: a reply queue made without maxsize: put never waits
HasRoom_unbounded(s) == TRUE

\* Queue.put on the reply queue has room (otherwise the caller is suspended)
HasRoom(s) == Len(replies[s]) < ReplyMaxsize

\* Queue.empty()
Empty(q) == Len(q) = 0

\* defective variant: a LIFO queue: the newest item is handed out
QueueGet_newest(q) == q[Len(q)]

\* what Queue.get() hands out, and what it leaves behind
QueueGet(q) == Head(q)

QueueRest(q) == Tail(q)

\* an ask_question call: pc is "idle", "waiting" (suspended in Queue.get, line 94)
\* or "done"; st the station, res the value returned.  The other fields are history:
\*   stale the value returned was in the reply queue before the call started
\*   hist  "fresh" while no put_reply for st has been called since the call
\*         blocked, "delivered" after one, "reconnected" when a get() for st found
\*         the flag set while the call was still fresh
\*   due   the reply of the latest accepted put_reply made while this call was
\*         the only one blocked on st and no get() for st had intervened
\*   sole  no other ask_question for st has started since due was set
\*   reg   a get() for st has registered while this call was blocked
NotSeen == [asked |-> {}, frame |-> FALSE, clean |-> FALSE]

IdleAsk == [pc |-> "idle", st |-> None, res |-> None, stale |-> FALSE,
            hist |-> "none", due |-> None, sole |-> FALSE, reg |-> FALSE]

Waiting(a, s) == ask[a].pc = "waiting" /\ ask[a].st = s

Waiters(s) == {a \in Askers : Waiting(a, s)}

Init ==
    /\ streams = [s \in Stations |-> None]
    /\ replies = [s \in Stations |-> <<>>]
    /\ waiting_reply = [s \in Stations |-> FALSE]
    /\ queue = [x \in Sessions |-> <<>>]
    /\ spc = [x \in Sessions |-> "new"]
    /\ sstation = [x \in Sessions |-> None]
    /\ produced = [x \in Sessions |-> <<>>]
    /\ putlog = [x \in Sessions |-> <<>>]
    /\ ask = [a \in Askers |-> IdleAsk]
    /\ nAsk = 0
    /\ seen = [s \in Stations |-> NotSeen]
    /\ events = <<>>
    /\ err = NoError

\* ------------------------------------------------------------- put, put_all
\* defective variant: the assertion only checks that some stream exists
put_ok_any(s) == \E t \in Stations : Registered(t)

\* EventStream.put(station, data): assert station.id in cls._streams, then put
put_ok(s) == Registered(s)

put(s) ==
    /\ IF put_ok(s)
       THEN /\ queue' = Enq(queue, streams[s], <<AppEvent(Len(events) + 1)>>)
            /\ putlog' = Enq(putlog, streams[s], <<AppEvent(Len(events) + 1)>>)
            /\ events' = Append(events, [op |-> "put", reg |-> streams, nsess |-> nSess,
                                          open |-> Serving])
            /\ err' = NoError
       ELSE /\ err' = <<"put", s>>
            /\ UNCHANGED <<queue, putlog, events>>
    /\ UNCHANGED <<streams, replies, waiting_reply, spc, sstation, produced, ask, nAsk,
                   seen>>

\* defective variant: every queue ever created, superseded ones included
StreamValues_ever == {x \in Sessions : spc[x] # "new"}

\* the queues put_all iterates over: cls._streams.values()
StreamValues == {streams[s] : s \in {t \in Stations : Registered(t)}}

put_all ==
    /\ queue' = [x \in Sessions |->
                    IF x \in StreamValues
                    THEN Append(queue[x], AppEvent(Len(events) + 1)) ELSE queue[x]]
    /\ putlog' = [x \in Sessions |->
                    IF x \in StreamValues
                    THEN Append(putlog[x], AppEvent(Len(events) + 1)) ELSE putlog[x]]
    /\ events' = Append(events, [op |-> "put_all", reg |-> streams, nsess |-> nSess,
                                          open |-> Serving])
    /\ err' = NoError
    /\ UNCHANGED <<streams, replies, waiting_reply, spc, sstation, produced, ask, nAsk,
                   seen>>

\* ------------------------------------------------------------ ask_question
\* the call returns with the item it took from the reply queue
Returned(r, item) == [r EXCEPT !.pc = "done", !.res = item]

\* another ask_question for s starts: the blocked calls are no longer alone
NotSole(b, s) == [a \in Askers |->
                    IF a # b /\ Waiting(a, s) THEN [ask[a] EXCEPT !.sole = FALSE] ELSE ask[a]]

ask_question(a, s) ==
    /\ ask[a].pc # "waiting"
    /\ IF put_ok(s)
       THEN /\ nAsk' = nAsk + 1
            /\ queue' = Enq(queue, streams[s], <<TefAskQuestion(nAsk + 1)>>)
            /\ putlog' = Enq(putlog, streams[s], <<TefAskQuestion(nAsk + 1)>>)
            /\ IF Empty(replies[s])
               THEN \* set the flag, suspend in get()
                    /\ waiting_reply' = [waiting_reply EXCEPT ![s] = TRUE]
                    /\ ask' = [NotSole(a, s) EXCEPT ![a] =
                                 [IdleAsk EXCEPT !.pc = "waiting", !.st = s,
                                                 !.hist = "fresh"]]
                    /\ UNCHANGED replies
               ELSE \* set the flag, get() returns at once, clear the flag
                    /\ waiting_reply' = [waiting_reply EXCEPT ![s] = FALSE]
                    /\ replies' = [replies EXCEPT ![s] = QueueRest(@)]
                    /\ ask' = [NotSole(a, s) EXCEPT ![a] =
                                 Returned([IdleAsk EXCEPT !.st = s, !.stale = TRUE],
                                          QueueGet(replies[s]))]
            /\ seen' = [seen EXCEPT ![s].asked = @ \cup {nAsk + 1}]
            /\ err' = NoError
       ELSE /\ err' = <<"ask_question", s>>
            /\ UNCHANGED <<queue, putlog, waiting_reply, replies, ask, nAsk, seen>>
    /\ UNCHANGED <<streams, spc, sstation, produced, events>>

\* the suspended get() of line 94 is handed an item; lines 95-97 follow
ask_wake(a) ==
    /\ ask[a].pc = "waiting"
    /\ ~Empty(replies[ask[a].st])
    /\ replies' = [replies EXCEPT ![ask[a].st] = QueueRest(@)]
    /\ waiting_reply' = [waiting_reply EXCEPT ![ask[a].st] = FALSE]
    /\ ask' = [ask EXCEPT ![a] = Returned(@, QueueGet(replies[ask[a].st]))]
    /\ err' = NoError
    /\ UNCHANGED <<streams, queue, spc, sstation, produced, putlog, nAsk, seen, events>>

\* --------------------------------------------------------------- put_reply
\* defective variant: the assertion of line 103 is missing
put_reply_ok_unchecked(s) == Registered(s) /\ waiting_reply[s]

\* the two assertions of lines 103-104 (a station never seen has no reply queue)
put_reply_ok(s) == Registered(s) /\ Empty(replies[s]) /\ waiting_reply[s]

\* history: a put_reply for s was called
Delivered(s, v, accepted) ==
    [a \in Askers |->
        IF Waiting(a, s)
        THEN [ask[a] EXCEPT
                !.hist = IF @ = "fresh" THEN "delivered" ELSE @,
                !.due = IF accepted /\ Waiters(s) = {a} /\ ask[a].hist = "fresh"
                        THEN v ELSE @,
                !.sole = IF accepted /\ Waiters(s) = {a} /\ ask[a].hist = "fresh"
                         THEN TRUE ELSE @]
        ELSE ask[a]]

put_reply(s, v) ==
    /\ IF put_reply_ok(s)
       THEN /\ replies' = [replies EXCEPT ![s] = Append(@, v)]
            /\ err' = NoError
       ELSE /\ err' = <<"put_reply", s>>
            /\ UNCHANGED replies
    /\ ask' = Delivered(s, v, put_reply_ok(s))
    /\ seen' = [seen EXCEPT ![s] = NotSeen]
    /\ UNCHANGED <<streams, waiting_reply, queue, spc, sstation, produced, putlog,
                   nAsk, events>>

\* --------------------------------------------------------------------- get
\* has_canceled and has_canceled[0][1]
HasCanceled(hook) == Len(hook) > 0 /\ hook[1]

\* lines 132-141: the keepalive goes into the session's own queue, the two
\* events through EventStream.put into the station's current queue
Seeded(f, x, cur, hook) ==
    IF HasCanceled(hook)
    THEN Enq(Enq(f, x, <<KeepAlive>>), cur, <<TefWarningMessage, ClearSale>>)
    ELSE Enq(f, x, <<KeepAlive>>)

\* line 124
Orphaned(s) == waiting_reply[s]

\* history: a new session registered for s
Reconnected(s) ==
    [a \in Askers |->
        IF Waiting(a, s)
        THEN [ask[a] EXCEPT
                !.hist = IF @ = "fresh" /\ Orphaned(s) THEN "reconnected" ELSE @,
                !.reg = TRUE]
        ELSE ask[a]]

NewSession == nSess + 1

get(s, hook) ==
    /\ nSess < MaxSessions
    /\ streams' = [streams EXCEPT ![s] = NewSession]
    /\ sstation' = [sstation EXCEPT ![NewSession] = s]
    /\ ask' = Reconnected(s)
    /\ seen' = [seen EXCEPT ![s] = NotSeen]
    /\ IF Orphaned(s) /\ ~HasRoom(s)
       THEN \* suspended in put() of line 128
            /\ spc' = [spc EXCEPT ![NewSession] = "put"]
            /\ UNCHANGED <<replies, waiting_reply, queue, putlog>>
       ELSE /\ spc' = [spc EXCEPT ![NewSession] = "loop"]
            /\ replies' = IF Orphaned(s)
                          THEN [replies EXCEPT ![s] =
                                   Append(@, EventStreamBrokenException)]
                          ELSE replies
            /\ waiting_reply' = [waiting_reply EXCEPT ![s] = FALSE]
            /\ queue' = Seeded(queue, NewSession, NewSession, hook)
            /\ putlog' = Seeded(putlog, NewSession, NewSession, hook)
    /\ err' = NoError
    /\ UNCHANGED <<produced, nAsk, events>>

\* the put() of line 128 completes once the reply queue has room; lines 129-142
get_resume(x, hook) ==
    /\ spc[x] = "put"
    /\ HasRoom(sstation[x])
    /\ replies' = [replies EXCEPT ![sstation[x]] =
                      Append(@, EventStreamBrokenException)]
    /\ waiting_reply' = [waiting_reply EXCEPT ![sstation[x]] = FALSE]
    /\ queue' = Seeded(queue, x, streams[sstation[x]], hook)
    /\ putlog' = Seeded(putlog, x, streams[sstation[x]], hook)
    /\ spc' = [spc EXCEPT ![x] = "loop"]
    /\ err' = NoError
    /\ UNCHANGED <<streams, sstation, produced, ask, nAsk, seen, events>>

\* ------------------------------------------------------------------- _loop
\* one iteration: data = stream.get(); yield the frame
loop(x) ==
    /\ spc[x] = "loop"
    /\ ~Empty(queue[x])
    /\ produced' = [produced EXCEPT ![x] = Append(@, Frame(QueueGet(queue[x])))]
    /\ queue' = [queue EXCEPT ![x] = QueueRest(@)]
    /\ seen' = IF IsQuestion(QueueGet(queue[x])) /\ streams[sstation[x]] = x
               THEN [seen EXCEPT ![sstation[x]] =
                        [@ EXCEPT !.frame = TRUE,
                                  !.clean = @ \/ QueueGet(queue[x])[3] \in seen[sstation[x]].asked]]
               ELSE seen
    /\ err' = NoError
    /\ UNCHANGED <<streams, replies, waiting_reply, spc, sstation, putlog, ask, nAsk, events>>

\* defective variant: closing the response also clears the flag of the station
close_clearing(x) ==
    /\ spc[x] = "loop"
    /\ spc' = [spc EXCEPT ![x] = "closed"]
    /\ waiting_reply' = [waiting_reply EXCEPT ![sstation[x]] = FALSE]
    /\ err' = NoError
    /\ UNCHANGED <<streams, replies, queue, sstation, produced, putlog, ask, nAsk, seen,
                   events>>

\* the transport closes the response: the generator is never resumed
close(x) ==
    /\ spc[x] = "loop"
    /\ spc' = [spc EXCEPT ![x] = "closed"]
    /\ err' = NoError
    /\ UNCHANGED <<streams, replies, waiting_reply, queue, sstation, produced, putlog,
                   ask, nAsk, seen, events>>

\* ---------------------------------------------------------- specifications
RECURSIVE SumLen(_, _)
SumLen(f, n) == IF n = 0 THEN 0 ELSE Len(f[n]) + SumLen(f, n - 1)

nFrames == SumLen(produced, MaxSessions)

\* The whole broker: every entry point of EventStream and the transport.
Next ==
    \/ \E s \in Stations : Len(events) < MaxEvents /\ put(s)
    \/ Len(events) < MaxEvents /\ put_all
    \/ \E a \in Askers, s \in Stations : nAsk < StreamAsks /\ ask_question(a, s)
    \/ \E a \in Askers : ask_wake(a)
    \/ \E s \in Stations, v \in Answers : put_reply(s, v)
    \/ \E s \in Stations, hook \in HookResults : nSess < StreamSessions /\ get(s, hook)
    \/ \E x \in Sessions, hook \in HookResults : get_resume(x, hook)
    \/ \E x \in Sessions : nFrames < MaxFrames /\ loop(x)
    \/ \E x \in Sessions : close(x)

Spec == Init /\ [][Next]_vars

\* The question/answer protocol: the entry points that read or write _replies,
\* _waiting_reply and the blocked ask_question calls, explored deeper.  put,
\* put_all, _loop and the transport's close touch none of these, and the result
\* of the pending-transaction hook only decides what get() puts into the streams.
NextQA ==
    \/ \E a \in Askers, s \in Stations : nAsk < MaxAsks /\ ask_question(a, s)
    \/ \E a \in Askers : ask_wake(a)
    \/ \E s \in Stations, v \in Answers : put_reply(s, v)
    \/ \E s \in Stations : get(s, <<>>)
    \/ \E x \in Sessions : get_resume(x, <<>>)

SpecQA == Init /\ [][NextQA]_vars

\* gevent's hub resumes a greenlet suspended in Queue.get() once the queue holds
\* an item, and one suspended in Queue.put() once the queue has room
FairQA ==
    /\ SpecQA
    /\ \A a \in Askers : WF_vars(ask_wake(a))
    /\ \A x \in Sessions : WF_vars(get_resume(x, <<>>))

\* a generator whose queue holds an item is resumed as long as the transport
\* keeps the response open
FairStream ==
    /\ Spec
    /\ \A x \in Sessions : WF_vars(loop(x))

\* The life of the sessions of a station around the question/answer protocol:
\* SpecQA with fewer sessions and questions, and with _loop serving the queues
\* and the transport closing the responses.
NextLife ==
    \/ \E a \in Askers, s \in Stations : nAsk < LifeAsks /\ ask_question(a, s)
    \/ \E a \in Askers : ask_wake(a)
    \/ \E s \in Stations, v \in Answers : put_reply(s, v)
    \/ \E s \in Stations : nSess < StreamSessions /\ get(s, <<>>)
    \/ \E x \in Sessions : get_resume(x, <<>>)
    \/ \E x \in Sessions : nFrames < MaxFrames /\ loop(x)
    \/ \E x \in Sessions : close(x)

SpecLife == Init /\ [][NextLife]_vars

\* ------------------------------------------------------------------ claims
Broken == EventStreamBrokenException

\* asker a is the only caller that has ever asked a question
Alone(a) == \A b \in Askers \ {a} : ask[b].pc = "idle"

Range(f) == {f[i] : i \in DOMAIN f}

Count(e, f) == Cardinality({i \in DOMAIN f : f[i] = e})

Frames(f) == [i \in DOMAIN f |-> Frame(f[i])]

AllUnchanged == UNCHANGED <<streams, replies, waiting_reply, queue, spc, sstation,
                            produced, putlog, ask, nAsk, seen, events>>

\* C1: an ask_question that was blocked with the flag set when a get() for its
\* station registered, before any put_reply for the station was called, returns
\* EventStreamBrokenException; the flag is clear right after that get() and right
\* after the ask_question returns.
C1_BrokenOnReconnect ==
    [][\A a \in Askers :
        /\ (ask[a].pc = "waiting" /\ ask[a].hist = "fresh" /\ ask'[a].hist = "reconnected")
              => ~waiting_reply'[ask[a].st]
        /\ (ask[a].pc = "waiting" /\ ask[a].hist = "reconnected" /\ ask'[a].pc = "done")
              => (ask'[a].res = Broken /\ ~waiting_reply'[ask[a].st])]_vars

\* C1, for a caller whose questions never overlap another caller's (holds).
C1_BrokenOnReconnectAlone ==
    [][\A a \in Askers :
        (Alone(a) /\ ask[a].pc = "waiting" /\ ask[a].hist = "reconnected"
                  /\ ask'[a].pc = "done")
            => (ask'[a].res = Broken /\ ~waiting_reply'[ask[a].st])]_vars

\* C2: when put_reply(s, v) was accepted while exactly one ask_question was
\* blocked on s, with no get() for s since that call blocked, the call returns v.
C2_RoundTrip ==
    \A a \in Askers : (ask[a].pc = "done" /\ ask[a].due # None) => ask[a].res = ask[a].due

\* C2, when no other ask_question for s starts before the call returns (holds).
C2_RoundTripSoleAsk ==
    \A a \in Askers :
        (ask[a].pc = "done" /\ ask[a].due # None /\ ask[a].sole) => ask[a].res = ask[a].due

\* C3: an ask_question never returns a value that was in the reply queue before
\* it started: the queue is empty whenever a call starts, so the call blocks.
\* Stated for a caller that is the only one ever asking, so that a violation
\* owes nothing to overlapping questions.
C3_NoStaleReply ==
    \A a \in Askers : (Alone(a) /\ ask[a].pc = "done") => ~ask[a].stale

\* C4: an ask_question that is blocked when a get() for its station registers
\* eventually returns.
C4_BlockedAskReturns ==
    \A a \in Askers : (ask[a].pc = "waiting" /\ ask[a].reg) ~> (ask[a].pc = "done")

\* C4, for a caller whose questions never overlap another caller's (holds).
C4_BlockedAskReturnsAlone ==
    \A a \in Askers :
        (Alone(a) /\ ask[a].pc = "waiting" /\ ask[a].reg)
            ~> (ask[a].pc = "done" \/ ~Alone(a))

\* C5: put_reply(s, v) is accepted exactly when the reply queue of s is empty and
\* the flag of s is set, and then the queue holds v; in every other state the
\* call raises and the reply queues, the flags, the streams and their queues are
\* unchanged.
C5_DeliverPrecondition ==
    [][\A s \in Stations, v \in Answers :
        put_reply(s, v) =>
            IF Registered(s) /\ replies[s] = <<>> /\ waiting_reply[s]
            THEN err' = NoError /\ replies' = [replies EXCEPT ![s] = <<v>>]
            ELSE err' = <<"put_reply", s>>
                 /\ UNCHANGED <<replies, waiting_reply, streams, queue>>]_vars

\* a second put_reply was rejected while the first reply was still in the queue
C5_Witness ==
    \E s \in Stations :
        err = <<"put_reply", s>> /\ Len(replies[s]) = 1 /\ waiting_reply[s]
                                 /\ replies[s][1] # Broken

\* C6: a reply queue never holds more than one item.
C6_SlotHoldsAtMostOne == \A s \in Stations : Len(replies[s]) <= 1

\* a get() found the flag set and the reply queue full, and waits in put()
C6_Witness ==
    \E x \in Sessions : spc[x] = "put" /\ Len(replies[sstation[x]]) = 1

\* C7: no two ask_question calls are blocked on the same station.
C7_OneOutstandingQuestion == \A s \in Stations : Cardinality(Waiters(s)) <= 1

\* C8: put and ask_question for a station that has no stream raise and change
\* nothing: no queue, no flag, no reply queue, and the caller is not blocked.
C8_UnregisteredPushFails ==
    [][/\ \A s \in Stations :
            (put(s) /\ ~Registered(s)) => (err' = <<"put", s>> /\ AllUnchanged)
       /\ \A a \in Askers, s \in Stations :
            (ask_question(a, s) /\ ~Registered(s))
                => (err' = <<"ask_question", s>> /\ AllUnchanged)]_vars

\* an ask_question for a station without a stream raised while another station
\* had one
C8_Witness ==
    \E s, t \in Stations :
        /\ ~Registered(s) /\ Registered(t)
        /\ err = <<"ask_question", s>>
        /\ ~waiting_reply[s] /\ Waiters(s) = {}

\* C9: for every session, the frames produced followed by the frames of the items
\* still queued are the frames of the items put into its queue, in put order.
C9_Fifo ==
    \A x \in Sessions : produced[x] \o Frames(queue[x]) = Frames(putlog[x])

\* a session has produced the keepalive and then an item of another producer,
\* and holds more
C9_Witness ==
    \E x \in Sessions :
        /\ Len(produced[x]) = 2
        /\ produced[x][1] = Frame(KeepAlive)
        /\ produced[x][2] \in {Frame(AppEvent(1)), Frame(TefAskQuestion(1))}
        /\ queue[x] # <<>>

\* C10: the event of the n-th call, a put_all, is put exactly once into the queue
\* of every session that was current for some station at the call, into no other
\* queue, and is not produced by a session created after the call.
C10_Broadcast ==
    \A n \in DOMAIN events :
        events[n].op = "put_all" =>
            \A x \in Sessions :
                /\ Count(AppEvent(n), putlog[x])
                      = IF \E s \in Stations : events[n].reg[s] = x THEN 1 ELSE 0
                /\ x > events[n].nsess => Frame(AppEvent(n)) \notin Range(produced[x])

\* a put_all reached the session current at the call, which produced it, and a
\* session created afterwards for the same station was seeded without it
C10_Witness ==
    \E n \in DOMAIN events, x, y \in Sessions :
        /\ events[n].op = "put_all"
        /\ x <= events[n].nsess /\ y > events[n].nsess
        /\ sstation[x] = sstation[y] /\ spc[y] = "loop"
        /\ Frame(AppEvent(n)) \in Range(produced[x])
        /\ putlog[y] # <<>> /\ AppEvent(n) \notin Range(putlog[y])

\* C11: the first frame a session produces is the keepalive, whatever put, put_all,
\* ask_question and put_reply calls are interleaved with the opening of the session.
C11_FirstFrameKeepAlive ==
    \A x \in Sessions : produced[x] # <<>> => produced[x][1] = Frame(KeepAlive)

\* C11, second half: a question already asked is never put into a queue later on,
\* so a session that registers afterwards never produces it (holds).
C11_NoStaleQuestion ==
    [][\A x \in Sessions, n \in 1..nAsk :
        TefAskQuestion(n) \in Range(putlog'[x])
            => TefAskQuestion(n) \in Range(putlog[x])]_vars

\* some subscriber of the hook reported a pending transaction
Reported(hook) == \E i \in DOMAIN hook : hook[i]

\* the step put one warning event and one clear-sale event into the queue of cur
Warned(cur) ==
    /\ Count(TefWarningMessage, putlog'[cur]) = Count(TefWarningMessage, putlog[cur]) + 1
    /\ Count(ClearSale, putlog'[cur]) = Count(ClearSale, putlog[cur]) + 1

\* C12: when the hook returns pairs of which any one, at any position, has the
\* result true, the opening session puts the warning event and the clear-sale
\* event into the queue of its station.
C12_AnyPairPolicy ==
    [][\A hook \in HookResults :
        Reported(hook) =>
            /\ \A s \in Stations :
                  (get(s, hook) /\ spc'[NewSession] = "loop") => Warned(streams'[s])
            /\ \A x \in Sessions :
                  get_resume(x, hook) => Warned(streams[sstation[x]])]_vars

\* C12, when the first pair is the one with the result true (holds).
C12_FirstPairPolicy ==
    [][\A hook \in HookResults :
        HasCanceled(hook) =>
            /\ \A s \in Stations :
                  (get(s, hook) /\ spc'[NewSession] = "loop") => Warned(streams'[s])
            /\ \A x \in Sessions :
                  get_resume(x, hook) => Warned(streams[sstation[x]])]_vars

\* C13: apart from the queue take of _loop and the reply-queue take of
\* ask_question, no operation is ever suspended: the reconciliation of get()
\* never finds the reply queue full when it puts the sentinel.
C13_ReconciliationNeverBlocks == \A x \in Sessions : spc[x] # "put"

\* C13, for put_reply: the reply queue has room whenever a reply is accepted
\* (holds).
C13_DeliverNeverBlocks ==
    [][\A s \in Stations, v \in Answers :
        (put_reply(s, v) /\ err' = NoError) => HasRoom(s)]_vars

\* C14: closing the transport of a session leaves _streams, the reply queues and
\* the flags unchanged, and an ask_question that is blocked on the station of a
\* closed session, with the flag set and no reply in the queue, stays blocked
\* with the flag set in every step that does not register a session for the
\* station (a put_reply leaves it blocked with the flag set as well).
C14_CloseLeavesAskBlocked ==
    [][/\ \A x \in Sessions :
            close(x) => UNCHANGED <<streams, replies, waiting_reply, ask>>
       /\ \A a \in Askers, s \in Stations :
            (/\ Waiting(a, s) /\ waiting_reply[s] /\ Empty(replies[s])
             /\ \E x \in Sessions : sstation[x] = s /\ spc[x] = "closed")
                => \/ ask'[a].pc = "waiting" /\ ask'[a].st = s /\ waiting_reply'[s]
                   \/ streams'[s] # streams[s]]_vars

\* C14, the effect of the close itself (holds).
C14_CloseFrame ==
    [][\A x \in Sessions :
        close(x) => UNCHANGED <<streams, replies, waiting_reply, queue, putlog, ask>>]_vars

\* C14, last part: a put for a station whose current session is closed is
\* accepted and goes into the queue of that session (holds).
C14_PushAfterClose ==
    [][\A s \in Stations :
        (put(s) /\ Registered(s) /\ spc[streams[s]] = "closed")
            => /\ err' = NoError
               /\ queue'[streams[s]]
                     = Append(queue[streams[s]], AppEvent(Len(events) + 1))]_vars

\* C15: the flag of a station goes from clear to set only in a step in which an
\* ask_question for the station blocks, and from set to clear only in a step in
\* which an ask_question for the station returns with a value or a session of the
\* station completes its reconciliation; put, put_all, put_reply, _loop and the
\* close of a session leave every flag unchanged.
C15_FlagChanges ==
    [][/\ \A s \in Stations :
            /\ (~waiting_reply[s] /\ waiting_reply'[s])
                  => /\ nAsk' = nAsk + 1
                     /\ \E a \in Askers : /\ ask[a].pc # "waiting"
                                           /\ ask'[a].pc = "waiting" /\ ask'[a].st = s
            /\ (waiting_reply[s] /\ ~waiting_reply'[s])
                  => \/ \E a \in Askers :
                          /\ ask'[a].pc = "done" /\ ask'[a].st = s /\ ask'[a].res # None
                          /\ ask[a].pc = "waiting" \/ nAsk' = nAsk + 1
                     \/ \E x \in Sessions :
                          sstation'[x] = s /\ spc[x] # "loop" /\ spc'[x] = "loop"
       /\ (\/ \E s \in Stations : put(s)
           \/ put_all
           \/ \E s \in Stations, v \in Answers : put_reply(s, v)
           \/ \E x \in Sessions : loop(x)
           \/ \E x \in Sessions : close(x)) => UNCHANGED waiting_reply]_vars

\* an ask_question set the flag of a station and blocked, a session of the
\* station has been closed, and a new session found the flag set and cleared it:
\* the call is still suspended, with the sentinel in the reply queue
C15_Witness ==
    \E a \in Askers, x \in Sessions :
        /\ ask[a].pc = "waiting" /\ ask[a].hist = "reconnected"
        /\ ~waiting_reply[ask[a].st]
        /\ replies[ask[a].st] = <<Broken>>
        /\ spc[x] = "closed" /\ sstation[x] = ask[a].st

\* session x registered for its station and a later session has replaced it
Superseded(x) == spc[x] # "new" /\ streams[sstation[x]] # x

\* C16: registration replaces and never merges: the queue of a superseded
\* session receives no further item, the queue of a session that registers
\* starts with nothing but what the session itself seeds, and the registration
\* keeps the reply queue of the station with its contents and never sets the flag.
C16_ReplaceNotMerge ==
    [][/\ \A x \in Sessions : Superseded(x) => putlog'[x] = putlog[x]
       /\ \A s \in Stations, hook \in HookResults :
            get(s, hook) =>
                /\ putlog[NewSession] = <<>>
                /\ putlog'[NewSession]
                      \in {<<>>, <<KeepAlive>>, <<KeepAlive, TefWarningMessage, ClearSale>>}
                /\ replies'[s] \in {replies[s], Append(replies[s], Broken)}
                /\ waiting_reply'[s] => waiting_reply[s]]_vars

\* C16, for the superseded sessions that have completed their opening: their
\* queues receive nothing from put, put_all, ask_question or a later session
\* (holds).
C16_ServedQueueIsLeftAlone ==
    [][\A x \in Sessions :
        (Superseded(x) /\ spc[x] \in {"loop", "closed"}) => putlog'[x] = putlog[x]]_vars

\* C17: when several sessions are being served, every event put by put or
\* put_all is eventually produced by each of the sessions that were being served
\* at the call (unless the transport closes the session first).
C17_AllClientsReceiveAll ==
    \A n \in 1..MaxEvents, x \in Sessions :
        (/\ n \in DOMAIN events
         /\ x \in events[n].open
         /\ Cardinality(events[n].open) > 1)
            ~> (Frame(AppEvent(n)) \in Range(produced[x]) \/ spc[x] = "closed")

\* the step completes the opening of session x, whose station has the current
\* session cur: _loop has not started, the keepalive is appended to the queue of
\* x and, when a pending transaction is reported, the warning event and then the
\* clear-sale event are appended right behind it, next to each other
OpeningOrder(x, cur, reported) ==
    /\ spc[x] # "loop" /\ produced[x] = <<>> /\ produced'[x] = <<>>
    /\ IF cur = x
       THEN putlog'[x] = putlog[x] \o <<KeepAlive>>
                            \o (IF reported THEN <<TefWarningMessage, ClearSale>> ELSE <<>>)
       ELSE /\ putlog'[x] = putlog[x] \o <<KeepAlive>>
            /\ putlog'[cur] = putlog[cur]
                            \o (IF reported THEN <<TefWarningMessage, ClearSale>> ELSE <<>>)

\* C18: a session that completes its opening enqueues the keepalive and, when
\* the hook reports a pending transaction, then the warning event immediately
\* followed by the clear-sale event, before its _loop produces anything.
C18_OpeningOrder ==
    [][\A hook \in HookResults :
        /\ \A s \in Stations :
              (get(s, hook) /\ spc'[NewSession] = "loop")
                  => OpeningOrder(NewSession, streams'[s], Reported(hook))
        /\ \A x \in Sessions :
              get_resume(x, hook)
                  => OpeningOrder(x, streams[sstation[x]], Reported(hook))]_vars

\* C18, with the report read the way line 137 reads it, from the first pair
\* (holds).
C18_OpeningOrderFirstPair ==
    [][\A hook \in HookResults :
        /\ \A s \in Stations :
              (get(s, hook) /\ spc'[NewSession] = "loop")
                  => OpeningOrder(NewSession, streams'[s], HasCanceled(hook))
        /\ \A x \in Sessions :
              get_resume(x, hook)
                  => OpeningOrder(x, streams[sstation[x]], HasCanceled(hook))]_vars

\* C19: whenever the current session of a station has produced the frame of a
\* question and neither a get() nor a put_reply for the station has been called
\* since that question was asked, the station has a reply queue, its flag is set
\* and the queue is empty: put_reply for the station is accepted.
C19_ReplyToSeenQuestion ==
    \A s \in Stations :
        seen[s].clean => (Registered(s) /\ waiting_reply[s] /\ Empty(replies[s]))

\* C19, counting only the calls made since the frame was produced: a put_reply
\* made between the question and its frame is then not excluded (violated as
\* well, by a single caller and a single session).
C19_ReplyToSeenQuestionSinceFrame ==
    \A s \in Stations :
        seen[s].frame => (Registered(s) /\ waiting_reply[s] /\ Empty(replies[s]))

\* C19, for a caller whose questions never overlap another caller's, as long as
\* a single session has been opened (holds).
C19_ReplyToSeenQuestionAlone ==
    \A s \in Stations :
        (seen[s].clean /\ nSess = 1 /\ \E a \in Askers : Alone(a))
            => (Registered(s) /\ waiting_reply[s] /\ Empty(replies[s]))

\* C20: whenever an ask_question is blocked on a station, the flag of the station
\* is set or its reply queue holds an item.
C20_NoStrandedWaiter ==
    \A a \in Askers, s \in Stations :
        Waiting(a, s) => (waiting_reply[s] \/ ~Empty(replies[s]))

\* C20, for a caller whose questions never overlap another caller's (holds).
C20_NoStrandedWaiterAlone ==
    \A a \in Askers, s \in Stations :
        (Alone(a) /\ Waiting(a, s)) => (waiting_reply[s] \/ ~Empty(replies[s]))

\* C21: whenever no ask_question for a station is in progress (none is between
\* setting the flag at line 93 and clearing it at line 95), the flag of the
\* station is clear and its reply queue is empty.
C21_Quiescence ==
    \A s \in Stations :
        Waiters(s) = {} => (~waiting_reply[s] /\ Empty(replies[s]))

\* C21, for the flag alone (holds).
C21_QuiescentFlag ==
    \A s \in Stations : Waiters(s) = {} => ~waiting_reply[s]

\* C21, for a caller that is the only one ever asking (violated as well).
C21_QuiescenceAlone ==
    \A s \in Stations :
        (Waiters(s) = {} /\ \E a \in Askers : Alone(a))
            => (~waiting_reply[s] /\ Empty(replies[s]))

\* the step leaves every station other than s alone: its entry in _streams, its
\* reply queue, its flag, the queues of its sessions and the calls blocked on it
Isolated(s) ==
    \A t \in Stations \ {s} :
        /\ streams'[t] = streams[t]
        /\ replies'[t] = replies[t]
        /\ waiting_reply'[t] = waiting_reply[t]
        /\ \A y \in Sessions :
              sstation[y] = t => (queue'[y] = queue[y] /\ putlog'[y] = putlog[y])
        /\ \A a \in Askers : Waiting(a, t) => ask'[a] = ask[a]

\* C22: a get(), put, ask_question (its resumption included) or put_reply for a
\* station changes nothing of any other station: not its current queue, its
\* reply queue or its flag, and no ask_question blocked on another station is
\* released, broken or answered.
C22_StationIsolation ==
    [][\A s \in Stations :
        (\/ put(s)
         \/ \E a \in Askers : ask_question(a, s)
         \/ \E a \in Askers : ask[a].st = s /\ ask_wake(a)
         \/ \E v \in Answers : put_reply(s, v)
         \/ \E hook \in HookResults : get(s, hook)
         \/ \E x \in Sessions, hook \in HookResults :
               sstation[x] = s /\ get_resume(x, hook))
            => Isolated(s)]_vars

\* a call is blocked on station t, untouched; after it blocked, another call
\* asked station s a question, blocked, and was broken by a reconnect of s
C22_Witness ==
    \E a, b \in Askers, s, t \in Stations, x, y \in Sessions, n, m \in 1..MaxAsks :
        /\ s # t /\ n < m
        /\ Waiting(a, t) /\ ask[a].hist = "fresh"
        /\ waiting_reply[t] /\ Empty(replies[t])
        /\ sstation[x] = t /\ TefAskQuestion(n) \in Range(putlog[x])
        /\ sstation[y] = s /\ TefAskQuestion(m) \in Range(putlog[y])
        /\ streams[s] # y
        /\ ask[b].pc = "done" /\ ask[b].st = s /\ ~ask[b].stale
        /\ ask[b].res = Broken
====
